---- MODULE Spec2Model ----
(***************************************************************************)
(* A model of guilhermegsr/vigenere-cipher:                                *)
(*   src/crypto/vigenere.py              VigenereCipher                    *)
(*   src/analyser/vigenere_analyser.py   VigenereAnalyser                  *)
(*                                                                         *)
(* Strings are sequences of Unicode code points.  The Python built-ins     *)
(* str.isalpha, str.upper, ord and slicing are modelled by what they do on *)
(* the code points that the inputs are drawn from; besides the ASCII       *)
(* letters these include U+00E9 (e-acute), a letter of Portuguese, the     *)
(* analyser's default language, and U+00DF (sharp s), whose upper-case     *)
(* form is the two characters "SS".                                        *)
(*                                                                         *)
(* Numbers: the Index of Coincidence is an exact fraction <<n, d>>.  The   *)
(* expected letter frequencies are integers of ten-thousandths, and a      *)
(* chi-squared score is an integer of ten-thousandths (each quotient is    *)
(* truncated), where the program uses IEEE doubles.                        *)
(***************************************************************************)
EXTENDS Integers, Sequences, FiniteSets, TLC

VARIABLES
    \* ---- one VigenereCipher session
    cpc,            \* "new" | "constructed" | "failed" | "encrypted" | "raised" | "decrypted"
    key_arg,        \* the constructor's argument: [type |-> "str" | "int", val |-> string]
    cipher_exc,     \* what the constructor raised: "none" | "TypeError" | "ValueError"
    _key,           \* self._key
    plaintext,      \* the argument of encrypt
    enc,            \* what encrypt returned: [exc |-> ..., val |-> string]
    dec,            \* what decrypt returned for enc.val
    \* ---- one VigenereAnalyser instance
    attrs,              \* the names of the attributes the instance has
    ciphertext,         \* self.ciphertext
    expected_freqs,     \* self.expected_freqs, letter index + 1 -> ten-thousandths
    key_length_scores,  \* self.key_length_scores, key_len -> fraction
    call,               \* the last call on the instance, its arguments and outcome
    first,              \* the first method call on the instance, and the instance after it
    again               \* TRUE when the last call repeated the first one

cipher_vars == <<cpc, key_arg, cipher_exc, _key, plaintext, enc, dec>>
analyser_vars == <<attrs, ciphertext, expected_freqs, key_length_scores, call, first, again>>
vars == <<cipher_vars, analyser_vars>>

----------------------------------------------------------------------------
(* Bounds of the model *)

MaxKeyLen == 2      \* longest key handed to VigenereCipher
MaxTextLen == 2     \* longest text handed to encrypt
MaxCtLen == 3       \* longest raw ciphertext handed to VigenereAnalyser
MaxMaxLen == 3      \* largest max_len / key_len argument

----------------------------------------------------------------------------
(* Characters *)

ord_A == 65

\* string.ascii_uppercase, as code points
ascii_uppercase == [i \in 1..26 |-> ord_A + i - 1]

mod == Len(ascii_uppercase)

AsciiUpper == 65..90
AsciiLower == 97..122

\* str.isalpha() of one character.  201 is U+00C9, 233 is U+00E9 (e-acute, upper
\* and lower case) and 223 is U+00DF (sharp s): Python counts all three as letters.
isalpha(c) == c \in AsciiUpper \cup AsciiLower \cup {201, 233, 223}

\* str.upper() of one character: a string, not always of length 1
\* ("\u00e9".upper() is "\u00c9", "\u00df".upper() is "SS")
upper(c) ==
    IF c \in AsciiLower THEN <<c - 32>>
    ELSE IF c = 233 THEN <<201>>
    ELSE IF c = 223 THEN <<83, 83>>
    ELSE <<c>>

RECURSIVE str_upper(_)
\* str.upper() of a string
str_upper(s) == IF s = <<>> THEN <<>> ELSE upper(Head(s)) \o str_upper(Tail(s))

\* str.isalpha() of a string: non-empty and every character alphabetic
str_isalpha(s) == s # <<>> /\ \A i \in DOMAIN s : isalpha(s[i])

\* [c for c in text if c.isalpha()]
alpha_only(s) == SelectSeq(s, isalpha)

\* all strings over chars of length at most n
Strings(chars, n) == UNION {[1..k -> chars] : k \in 0..n}

Ok(v) == [exc |-> "none", val |-> v]
Raise(e) == [exc |-> e, val |-> <<>>]

----------------------------------------------------------------------------
(* VigenereCipher *)

\* _validate_key: the exception raised, or "none"
validate_key_exc(key) ==
    IF key.type # "str" THEN "TypeError"
    ELSE IF ~str_isalpha(key.val) THEN "ValueError"
    ELSE "none"

\* _validate_key: the value returned when nothing is raised
_validate_key(key) == str_upper(key.val)

RECURSIVE repeat_str(_, _)
\* s * n
repeat_str(s, n) == IF n <= 0 THEN <<>> ELSE s \o repeat_str(s, n - 1)

\* _extend_key
_extend_key(key, text) ==
    LET filtered_text_length == Len(alpha_only(text))
    IN  SubSeq(repeat_str(key, (filtered_text_length \div Len(key)) + 1),
               1, filtered_text_length)

RECURSIVE encrypt_loop(_, _, _, _)
\* the for loop of encrypt from character i (1-based) on
encrypt_loop(text, key, i, key_index) ==
    IF i > Len(text) THEN Ok(<<>>)
    ELSE LET char == text[i] IN
         IF isalpha(char)
         THEN IF Len(upper(char)) # 1 THEN Raise("TypeError")   \* ord() of a 2-character string
              ELSE LET p_idx == upper(char)[1] - ord_A
                       k_idx == key[key_index + 1] - ord_A
                       c_idx == (p_idx + k_idx) % mod
                       rest == encrypt_loop(text, key, i + 1, key_index + 1)
                   IN  IF rest.exc # "none" THEN rest
                       ELSE Ok(<<ascii_uppercase[c_idx + 1]>> \o rest.val)
         ELSE LET rest == encrypt_loop(text, key, i + 1, key_index)
              IN  IF rest.exc # "none" THEN rest ELSE Ok(<<char>> \o rest.val)

\* VigenereCipher.encrypt
encrypt(k, text) == encrypt_loop(text, _extend_key(k, text), 1, 0)

RECURSIVE decrypt_loop(_, _, _, _)
\* the for loop of decrypt from character i (1-based) on
decrypt_loop(text, key, i, key_index) ==
    IF i > Len(text) THEN Ok(<<>>)
    ELSE LET char == text[i] IN
         IF isalpha(char)
         THEN IF Len(upper(char)) # 1 THEN Raise("TypeError")
              ELSE LET c_idx == upper(char)[1] - ord_A
                       k_idx == key[key_index + 1] - ord_A
                       p_idx == (c_idx - k_idx + mod) % mod
                       rest == decrypt_loop(text, key, i + 1, key_index + 1)
                   IN  IF rest.exc # "none" THEN rest
                       ELSE Ok(<<ascii_uppercase[p_idx + 1]>> \o rest.val)
         ELSE LET rest == decrypt_loop(text, key, i + 1, key_index)
              IN  IF rest.exc # "none" THEN rest ELSE Ok(<<char>> \o rest.val)

\* VigenereCipher.decrypt
decrypt(k, text) == decrypt_loop(text, _extend_key(k, text), 1, 0)

----------------------------------------------------------------------------
(* VigenereAnalyser *)

\* the table of the "pt" branch of __init__, in ten-thousandths, 'A' first
freqs_pt ==
    << 1463, 104, 388, 499, 1257, 102, 130, 78, 618, 39, 2, 278, 474,
       505, 1073, 252, 120, 653, 781, 434, 463, 167, 1, 21, 1, 47 >>

\* the table of the else branch of __init__ (English)
freqs_en ==
    << 817, 149, 278, 425, 1270, 223, 202, 609, 697, 15, 77, 403, 241,
       675, 751, 193, 10, 599, 633, 906, 276, 98, 236, 15, 197, 7 >>

\* the default of __init__'s language parameter
default_language == "pt"

\* the if/else of __init__ that selects self.expected_freqs
select_freqs(language) == IF language = "pt" THEN freqs_pt ELSE freqs_en

\* ''.join([c for c in ciphertext.upper() if c.isalpha()])
filter_ciphertext(raw) == alpha_only(str_upper(raw))

\* a / b: a fraction, or ZeroDivisionError
Div(n, d) == IF d = 0 THEN Raise("ZeroDivisionError") ELSE Ok(<<n, d>>)

FracAdd(a, b) == <<a[1] * b[2] + b[1] * a[2], a[2] * b[2]>>
FracLess(a, b) == a[1] * b[2] < b[1] * a[2]
FracEq(a, b) == a[1] * b[2] = b[1] * a[2]

\* collections.Counter(text): character -> number of occurrences
Counter(text) ==
    [c \in {text[i] : i \in DOMAIN text} |->
        Cardinality({i \in DOMAIN text : text[i] = c})]

\* dict.get(k, 0)
get(d, k) == IF k \in DOMAIN d THEN d[k] ELSE 0

RECURSIVE sum_over(_, _)
\* sum(f(x) for x in d.values()): sum_over(d, keys still to add), f(x) = x * (x - 1)
sum_over(d, ks) ==
    IF ks = {} THEN 0
    ELSE LET k == CHOOSE x \in ks : TRUE
         IN  d[k] * (d[k] - 1) + sum_over(d, ks \ {k})

\* _index_of_coincidence with the guard N > 0 in place of N > 1
index_of_coincidence_guard_off_by_one(text) ==
    LET N == Len(text)
        freqs == Counter(text)
    IN  IF N > 0 THEN Div(sum_over(freqs, DOMAIN freqs), N * (N - 1))
        ELSE Ok(<<0, 1>>)

\* _index_of_coincidence
_index_of_coincidence(text) ==
    LET N == Len(text)
        freqs == Counter(text)
    IN  IF N > 1 THEN Div(sum_over(freqs, DOMAIN freqs), N * (N - 1))
        ELSE Ok(<<0, 1>>)

\* text[i::key_len], i counted from 0
column(text, i, key_len) ==
    IF i >= Len(text) THEN <<>>
    ELSE [k \in 1..(((Len(text) - i - 1) \div key_len) + 1) |->
            text[i + 1 + (k - 1) * key_len]]

RECURSIVE frac_sum(_, _)
\* sum(ic_values), from the n-th value on
frac_sum(ic_values, n) ==
    IF n > Len(ic_values) THEN <<0, 1>>
    ELSE FracAdd(ic_values[n].val, frac_sum(ic_values, n + 1))

\* the body of the outer loop of estimate_key_length: results[key_len]
average_ic(text, key_len) ==
    LET ic_values == [i \in 1..key_len |->
                        _index_of_coincidence(column(text, i - 1, key_len))]
    IN  IF \E i \in 1..key_len : ic_values[i].exc # "none"
        THEN Raise("ZeroDivisionError")
        ELSE LET total == frac_sum(ic_values, 1)
             IN  IF Len(ic_values) = 0 THEN Raise("ZeroDivisionError")
                 ELSE Ok(<<total[1], total[2] * Len(ic_values)>>)

RECURSIVE max_key_last(_, _, _)
\* a maximum search that keeps the last of the keys that share the maximum
max_key_last(results, k, best) ==
    IF k > Len(results) THEN best
    ELSE IF ~FracLess(results[k], results[best]) THEN max_key_last(results, k + 1, k)
    ELSE max_key_last(results, k + 1, best)

RECURSIVE max_key(_, _, _)
\* max(results, key=results.get): the first key, in insertion order, whose
\* value no later key exceeds
max_key(results, k, best) ==
    IF k > Len(results) THEN best
    ELSE IF FracLess(results[best], results[k]) THEN max_key(results, k + 1, k)
    ELSE max_key(results, k + 1, best)

\* estimate_key_length: [exc, val |-> best_len, stored |-> whether
\* self.key_length_scores was assigned, results |-> what was assigned]
estimate_key_length(text, max_len) ==
    LET avgs == [key_len \in 1..max_len |-> average_ic(text, key_len)]
        results == [key_len \in 1..max_len |-> avgs[key_len].val]
    IN  IF \E key_len \in 1..max_len : avgs[key_len].exc # "none"
        THEN [exc |-> "ZeroDivisionError", val |-> 0, stored |-> FALSE, results |-> <<>>]
        ELSE IF max_len < 1     \* max() of an empty dict
        THEN [exc |-> "ValueError", val |-> 0, stored |-> TRUE, results |-> <<>>]
        ELSE [exc |-> "none", val |-> max_key(results, 2, 1), stored |-> TRUE,
              results |-> results]

RECURSIVE chi_sum(_, _, _, _)
\* the for loop of _chi_squared from the n-th letter of the alphabet on
chi_sum(freqs, observed_freqs, total, n) ==
    IF n > Len(ascii_uppercase) THEN 0
    ELSE LET letter == ascii_uppercase[n]
             expected == freqs[n] * total
             observed == get(observed_freqs, letter) * 10000
         IN  (IF expected > 0
                 THEN ((observed - expected) * (observed - expected)) \div expected
                 ELSE 0)
             + chi_sum(freqs, observed_freqs, total, n + 1)

RECURSIVE sum_values(_, _)
\* sum(d.values())
sum_values(d, ks) ==
    IF ks = {} THEN 0
    ELSE LET k == CHOOSE x \in ks : TRUE IN d[k] + sum_values(d, ks \ {k})

\* _chi_squared, in ten-thousandths
_chi_squared(freqs, observed_freqs) ==
    chi_sum(freqs, observed_freqs, sum_values(observed_freqs, DOMAIN observed_freqs), 1)

\* the shifted_text of recover_key
shifted_text(col, shift) ==
    [k \in DOMAIN col |-> ascii_uppercase[((col[k] - ord_A - shift) % mod) + 1]]

\* the score of one shift of one column
shift_score(freqs, col, shift) == _chi_squared(freqs, Counter(shifted_text(col, shift)))

\* 'a', ' ', e-acute
RawChars == {97, 32, 233}

\* the ciphertext arguments of the constructor
RawTexts == Strings(RawChars, MaxCtLen)

\* the letters that survive the constructor's filter
FilteredChars ==
    {c \in UNION {{upper(r)[i] : i \in DOMAIN upper(r)} : r \in RawChars} : isalpha(c)}

\* the scores of every shift of every column such ciphertexts have, tabulated so
\* that each is computed once: column -> table -> shift -> score
chi_table ==
    [col \in Strings(FilteredChars, MaxCtLen) |->
        [freqs \in {freqs_pt, freqs_en} |->
            [shift \in 0..(mod - 1) |-> shift_score(freqs, col, shift)] @@ <<>>] @@ <<>>]
    @@ <<>>

\* best_shift = None, best_score = float('inf')
NoShift == [none |-> TRUE, shift |-> 0, score |-> 0]

\* if score <= best_score
improves_or_ties(score, best) == best.none \/ score <= best.score

\* if score < best_score
improves(score, best) == best.none \/ score < best.score

RECURSIVE shift_loop(_, _, _, _)
\* the loop over the shifts of one column, from `shift` on
shift_loop(freqs, col, shift, best) ==
    IF shift >= mod THEN best
    ELSE LET score == chi_table[col][freqs][shift]
         IN  IF improves(score, best)
             THEN shift_loop(freqs, col, shift + 1,
                             [none |-> FALSE, shift |-> shift, score |-> score])
             ELSE shift_loop(freqs, col, shift + 1, best)

\* recover_key
recover_key(text, freqs, key_len) ==
    LET best == [i \in 1..key_len |->
                    shift_loop(freqs, column(text, i - 1, key_len), 0, NoShift)]
    IN  IF \E i \in 1..key_len : best[i].none
        THEN Raise("TypeError")     \* self.alphabet[None]
        ELSE Ok([i \in 1..key_len |-> ascii_uppercase[best[i].shift + 1]])

\* analyse: what it returns, with what estimate_key_length did on the way
analyse(text, freqs, max_len) ==
    LET est == estimate_key_length(text, max_len)
    IN  IF est.exc # "none" THEN [est |-> est, key |-> Raise(est.exc)]
        ELSE [est |-> est, key |-> recover_key(text, freqs, est.val)]

----------------------------------------------------------------------------
(* The inputs *)

\* 'B', 'z', '1', e-acute, sharp s
KeyChars == {66, 122, 49, 233, 223}

\* every string over KeyChars up to MaxKeyLen, and the integer 123 (no string)
KeyArgs ==
    {[type |-> "str", val |-> s] : s \in Strings(KeyChars, MaxKeyLen)}
        \cup {[type |-> "int", val |-> <<>>]}

\* 'A', 'y', ' ', e-acute, sharp s
TextChars == {65, 121, 32, 233, 223}

Texts == Strings(TextChars, MaxTextLen)

\* the language argument: the two tags, an unrecognised one, or none given
LanguageArgs == {"pt", "en", "fr", "<omitted>"}

\* max_len and key_len arguments
LenArgs == 0..MaxMaxLen

----------------------------------------------------------------------------
(* The methods of the analyser are pure functions of the instance and the   *)
(* argument.  They are tabulated over the instances the inputs give, so     *)
(* that each value is computed once.                                        *)

Ciphertexts == {filter_ciphertext(raw) : raw \in RawTexts}

Tables == {select_freqs(language) : language \in {"pt", "en", "fr"}}

estimate_table ==
    [text \in Ciphertexts, max_len \in LenArgs |->
        estimate_key_length(text, max_len)] @@ <<>>

recover_table ==
    [text \in Ciphertexts, freqs \in Tables, key_len \in LenArgs |->
        recover_key(text, freqs, key_len)] @@ <<>>

analyse_table ==
    [text \in Ciphertexts, freqs \in Tables, max_len \in LenArgs |->
        analyse(text, freqs, max_len)] @@ <<>>

----------------------------------------------------------------------------
(* State *)

NoKey == [type |-> "none", val |-> <<>>]

Call(op, text, language, n, exc, ret_int, ret_str) ==
    [op |-> op, ciphertext_arg |-> text, language_arg |-> language, int_arg |-> n,
     exc |-> exc, ret_int |-> ret_int, ret_str |-> ret_str]

NoCall == Call("none", <<>>, "", 0, "none", 0, <<>>)

NoFirst == [call |-> NoCall, attrs |-> {}, key_length_scores |-> <<>>]

\* nothing is constructed yet
Init ==
    /\ cpc = "new"
    /\ key_arg = NoKey
    /\ cipher_exc = "none"
    /\ _key = <<>>
    /\ plaintext = <<>>
    /\ enc = Ok(<<>>)
    /\ dec = Ok(<<>>)
    /\ attrs = {}
    /\ ciphertext = <<>>
    /\ expected_freqs = <<>>
    /\ key_length_scores = <<>>
    /\ call = NoCall
    /\ first = NoFirst
    /\ again = FALSE

----------------------------------------------------------------------------
(* A cipher session *)

\* VigenereCipher(key)
CipherConstruct(key) ==
    /\ cpc = "new"
    /\ key_arg' = key
    /\ cipher_exc' = validate_key_exc(key)
    /\ _key' = IF validate_key_exc(key) = "none" THEN _validate_key(key) ELSE <<>>
    /\ cpc' = IF validate_key_exc(key) = "none" THEN "constructed" ELSE "failed"
    /\ UNCHANGED <<plaintext, enc, dec, analyser_vars>>

\* cipher.encrypt(text)
Encrypt(text) ==
    /\ cpc = "constructed"
    /\ plaintext' = text
    /\ enc' = encrypt(_key, text)
    /\ cpc' = IF encrypt(_key, text).exc = "none" THEN "encrypted" ELSE "raised"
    /\ UNCHANGED <<key_arg, cipher_exc, _key, dec, analyser_vars>>

\* cipher.decrypt(ciphertext), on what encrypt returned (main.py:165-166)
Decrypt ==
    /\ cpc = "encrypted"
    /\ dec' = decrypt(_key, enc.val)
    /\ cpc' = IF decrypt(_key, enc.val).exc = "none" THEN "decrypted" ELSE "raised"
    /\ UNCHANGED <<key_arg, cipher_exc, _key, plaintext, enc, analyser_vars>>

CipherNext ==
    \/ \E key \in KeyArgs : CipherConstruct(key)
    \/ \E text \in Texts : Encrypt(text)
    \/ Decrypt

CipherSpec == Init /\ [][CipherNext]_vars

----------------------------------------------------------------------------
(* The calls on one analyser instance *)

\* the bookkeeping of a method call c that leaves the instance with
\* attributes a and score table t
Remember(c, a, t) ==
    /\ call' = c
    /\ first' = IF first = NoFirst
                 THEN [call |-> c, attrs |-> a, key_length_scores |-> t]
                 ELSE first
    /\ again' = (first # NoFirst /\ first.call.op = c.op /\ first.call.int_arg = c.int_arg)

\* VigenereAnalyser(raw) or VigenereAnalyser(raw, language)
AnalyserConstruct(raw, language_arg) ==
    LET language == IF language_arg = "<omitted>" THEN default_language ELSE language_arg
    IN  /\ attrs = {}
        /\ ciphertext' = filter_ciphertext(raw)
        /\ expected_freqs' = select_freqs(language)
        /\ attrs' = {"ciphertext", "alphabet", "mod", "expected_freqs"}
        /\ call' = Call("__init__", raw, language_arg, 0, "none", 0, <<>>)
        /\ UNCHANGED <<key_length_scores, first, again, cipher_vars>>

\* estimate_key_length that merges its results into the table the instance
\* already holds (dict.update) instead of replacing the table
EstimateKeyLength_merging(max_len) ==
    LET r == estimate_table[ciphertext, max_len]
        merged == [L \in 1..(IF Len(r.results) > Len(key_length_scores)
                               THEN Len(r.results) ELSE Len(key_length_scores)) |->
                     IF L <= Len(r.results) THEN r.results[L] ELSE key_length_scores[L]]
        scores == IF r.stored THEN merged ELSE key_length_scores
        has == IF r.stored THEN attrs \cup {"key_length_scores"} ELSE attrs
    IN  /\ attrs # {}
        /\ key_length_scores' = scores
        /\ attrs' = has
        /\ Remember(Call("estimate_key_length", <<>>, "", max_len, r.exc, r.val, <<>>),
                    has, scores)
        /\ UNCHANGED <<ciphertext, expected_freqs, cipher_vars>>

\* analyser.estimate_key_length(max_len)
EstimateKeyLength(max_len) ==
    LET r == estimate_table[ciphertext, max_len]
        scores == IF r.stored THEN r.results ELSE key_length_scores
        has == IF r.stored THEN attrs \cup {"key_length_scores"} ELSE attrs
    IN  /\ attrs # {}
        /\ key_length_scores' = scores
        /\ attrs' = has
        /\ Remember(Call("estimate_key_length", <<>>, "", max_len, r.exc, r.val, <<>>),
                    has, scores)
        /\ UNCHANGED <<ciphertext, expected_freqs, cipher_vars>>

\* analyser.recover_key(key_len)
RecoverKey(key_len) ==
    LET r == recover_table[ciphertext, expected_freqs, key_len]
    IN  /\ attrs # {}
        /\ Remember(Call("recover_key", <<>>, "", key_len, r.exc, 0, r.val),
                    attrs, key_length_scores)
        /\ UNCHANGED <<attrs, ciphertext, expected_freqs, key_length_scores, cipher_vars>>

\* analyser.analyse(max_len)
Analyse(max_len) ==
    LET r == analyse_table[ciphertext, expected_freqs, max_len]
        scores == IF r.est.stored THEN r.est.results ELSE key_length_scores
        has == IF r.est.stored THEN attrs \cup {"key_length_scores"} ELSE attrs
    IN  /\ attrs # {}
        /\ key_length_scores' = scores
        /\ attrs' = has
        /\ Remember(Call("analyse", <<>>, "", max_len, r.key.exc, 0, r.key.val),
                    has, scores)
        /\ UNCHANGED <<ciphertext, expected_freqs, cipher_vars>>

AnalyserNext ==
    \/ \E raw \in RawTexts, language \in LanguageArgs : AnalyserConstruct(raw, language)
    \/ \E max_len \in LenArgs : EstimateKeyLength(max_len)
    \/ \E key_len \in LenArgs : RecoverKey(key_len)
    \/ \E max_len \in LenArgs : Analyse(max_len)

AnalyserSpec == Init /\ [][AnalyserNext]_vars

----------------------------------------------------------------------------
(* Vocabulary of the properties *)

\* a letter of the 26-letter alphabet, in either case
IsLetter(c) == c \in AsciiUpper \cup AsciiLower

\* the position of an upper-case letter in the alphabet, from 0
AlphabetIndex(c) == CHOOSE i \in 0..25 : ascii_uppercase[i + 1] = c

\* the upper-case letter of a letter
UpperLetter(c) == IF c \in AsciiLower THEN c - 32 ELSE c

\* the number of characters before position i that satisfy P
CountBefore(text, i, P(_)) == Cardinality({j \in 1..(i - 1) : P(text[j])})

\* text with every alphabetic character upper-cased and the others unchanged
\* (alphabetic as Python has it, which is the reading kindest to the code)
Normalised(text) == str_upper(text)

\* positions i, i + L, i + 2L, ... of text (i from 0), as a sequence
ColumnOf(text, i, L) ==
    LET ps == {p \in DOMAIN text : (p - 1) % L = i}
    IN  [k \in 1..Cardinality(ps) |-> text[i + 1 + (k - 1) * L]]

\* the probability, as a fraction, that two different positions of col hold
\* the same character; 0 when col has fewer than two positions
CoincidenceOf(col) ==
    IF Len(col) < 2 THEN <<0, 1>>
    ELSE <<Cardinality({pq \in (DOMAIN col) \X (DOMAIN col) :
                            pq[1] # pq[2] /\ col[pq[1]] = col[pq[2]]}),
           Len(col) * (Len(col) - 1)>>

RECURSIVE SumCoincidence(_, _, _)
SumCoincidence(text, L, i) ==
    IF i >= L THEN <<0, 1>>
    ELSE FracAdd(CoincidenceOf(ColumnOf(text, i, L)), SumCoincidence(text, L, i + 1))

\* the average of the coincidence of the L columns of text
MeanCoincidence(text, L) ==
    LET t == SumCoincidence(text, L, 0) IN <<t[1], t[2] * L>>

EncryptDone == cpc \in {"encrypted", "decrypted", "raised"}

----------------------------------------------------------------------------
(* VigenereCipher: C1, C2, C3 *)

\* C1: round trip.  Once decrypt has run on what encrypt returned, its result is
\* the plaintext with every alphabetic character upper-cased and every other
\* character unchanged in its place; neither call raises.
C1_RoundTrip ==
    /\ cpc # "raised"
    /\ cpc = "decrypted" => dec.val = Normalised(plaintext)

\* the round trip on texts of ASCII letters and non-letters, under a key of
\* ASCII letters
C1_RoundTripAscii ==
    (/\ cpc = "decrypted"
     /\ \A i \in DOMAIN plaintext : IsLetter(plaintext[i]) \/ ~isalpha(plaintext[i])
     /\ \A i \in DOMAIN _key : IsLetter(_key[i]))
        => dec.val = Normalised(plaintext)

\* C2: encrypt returns a text as long as its input; a character that is no
\* letter of the alphabet is copied in place, and the j-th letter (from 0) becomes
\* the upper-case letter at index (index of its upper-case form + index of
\* K[j mod len(K)]) mod 26.
C2_EncryptShape ==
    (EncryptDone /\ \A i \in DOMAIN _key : _key[i] \in AsciiUpper) =>
        /\ enc.exc = "none"
        /\ Len(enc.val) = Len(plaintext)
        /\ \A i \in DOMAIN enc.val :
              IF IsLetter(plaintext[i])
              THEN LET j == CountBefore(plaintext, i, IsLetter)
                       k == _key[(j % Len(_key)) + 1]
                   IN  enc.val[i] =
                         ascii_uppercase[((AlphabetIndex(UpperLetter(plaintext[i]))
                                            + AlphabetIndex(k)) % 26) + 1]
              ELSE enc.val[i] = plaintext[i]

\* C3: the constructor raises TypeError for a key that is no string, ValueError
\* for a string that is empty or holds a character that is no letter of the
\* alphabet, and otherwise stores the key upper-cased.
C3_KeyValidation ==
    cpc # "new" =>
        /\ key_arg.type # "str" => cipher_exc = "TypeError"
        /\ (key_arg.type = "str"
              /\ (key_arg.val = <<>> \/ \E i \in DOMAIN key_arg.val : ~IsLetter(key_arg.val[i])))
                 => cipher_exc = "ValueError"
        /\ cipher_exc = "none" =>
              /\ key_arg.type = "str"
              /\ key_arg.val # <<>>
              /\ \A i \in DOMAIN key_arg.val : IsLetter(key_arg.val[i])
              /\ _key = [i \in DOMAIN key_arg.val |-> UpperLetter(key_arg.val[i])]

----------------------------------------------------------------------------
(* VigenereAnalyser: C4 .. C9 *)

\* C4: estimate_key_length(max_len), max_len >= 1, stores for every length L in
\* 1..max_len the average coincidence of the L columns of the ciphertext, and
\* returns a length whose score no other length exceeds; every smaller length
\* scores strictly lower.
C4_EstimateKeyLength ==
    (call.op = "estimate_key_length" /\ call.int_arg >= 1) =>
        /\ call.exc = "none"
        /\ DOMAIN key_length_scores = 1..call.int_arg
        /\ \A L \in 1..call.int_arg :
              FracEq(key_length_scores[L], MeanCoincidence(ciphertext, L))
        /\ call.ret_int \in 1..call.int_arg
        /\ \A L \in 1..call.int_arg :
              /\ ~FracLess(MeanCoincidence(ciphertext, call.ret_int),
                           MeanCoincidence(ciphertext, L))
              /\ L < call.ret_int =>
                    FracLess(MeanCoincidence(ciphertext, L),
                             MeanCoincidence(ciphertext, call.ret_int))

\* a length other than 1 won against a shorter and a longer candidate
C4_Witness ==
    /\ call.op = "estimate_key_length"
    /\ call.int_arg = 3
    /\ call.ret_int = 2
    /\ FracLess(key_length_scores[1], key_length_scores[2])
    /\ FracLess(key_length_scores[3], key_length_scores[2])

\* C5: recover_key(key_len) returns key_len letters; the i-th is the letter of the
\* shift whose chi-squared score for column i is the least of the 26, and of the
\* shifts that share the least score the lowest; an empty column gives 'A'.
C5_RecoverKey ==
    call.op = "recover_key" =>
        /\ call.exc = "none"
        /\ Len(call.ret_str) = call.int_arg
        /\ \A i \in 1..call.int_arg :
              LET col == ColumnOf(ciphertext, i - 1, call.int_arg)
                  scores == chi_table[col][expected_freqs]
                  s == call.ret_str[i] - ord_A
              IN  /\ s \in 0..25
                  /\ \A t \in 0..25 :
                        /\ scores[s] <= scores[t]
                        /\ t < s => scores[t] > scores[s]
                  /\ col = <<>> => s = 0

\* a key of two letters over a one-letter ciphertext: the first column decides a
\* letter other than 'A', the second is empty
C5_Witness ==
    /\ call.op = "recover_key"
    /\ call.int_arg = 2
    /\ Len(ciphertext) = 1
    /\ call.exc = "none"
    /\ call.ret_str[1] # ord_A
    /\ call.ret_str[2] = ord_A

\* C6: after estimate_key_length the instance holds the score table, one entry
\* per length in 1..max_len; after recover_key, and so after analyse, it holds
\* the column metrics; what the first call stored stays on the instance.
C6_TablesPopulated ==
    /\ (call.op = "estimate_key_length" /\ call.exc = "none") =>
          /\ "key_length_scores" \in attrs
          /\ DOMAIN key_length_scores = 1..call.int_arg
    /\ (call.op \in {"recover_key", "analyse"} /\ call.exc = "none") =>
          "column_metrics" \in attrs
    /\ first.attrs \subseteq attrs

\* C7: an unrecognised language tag does not make the constructor fail and
\* selects the table that is selected when no language is given.
C7_LanguageFallback ==
    (call.op = "__init__" /\ call.language_arg \notin {"pt", "en", "<omitted>"}) =>
        /\ call.exc = "none"
        /\ expected_freqs = select_freqs(default_language)

\* C8: the coincidence index of an empty or one-character sequence is 0, and for
\* every ciphertext and every max_len >= 1 the three methods return without
\* raising: a length in 1..max_len, a key of key_len letters, and a key of
\* between 1 and max_len letters.
C8_DegenerateInput ==
    /\ _index_of_coincidence(<<>>) = Ok(<<0, 1>>)
    /\ \A i \in DOMAIN ciphertext : _index_of_coincidence(<<ciphertext[i]>>) = Ok(<<0, 1>>)
    /\ (call.op = "estimate_key_length" /\ call.int_arg >= 1) =>
          call.exc = "none" /\ call.ret_int \in 1..call.int_arg
    /\ call.op = "recover_key" =>
          /\ call.exc = "none"
          /\ Len(call.ret_str) = call.int_arg
          /\ \A i \in DOMAIN call.ret_str : call.ret_str[i] \in AsciiUpper
    /\ (call.op = "analyse" /\ call.int_arg >= 1) =>
          /\ call.exc = "none"
          /\ Len(call.ret_str) \in 1..call.int_arg
          /\ \A i \in DOMAIN call.ret_str : call.ret_str[i] \in AsciiUpper

\* analyse on a ciphertext shorter than max_len: columns of one letter and empty
\* columns are scored
C8_Witness ==
    /\ call.op = "analyse"
    /\ call.int_arg = 3
    /\ Len(ciphertext) = 1
    /\ call.exc = "none"

\* the result of the last call is the result of the first call
SameResult ==
    /\ call.exc = first.call.exc
    /\ call.ret_int = first.call.ret_int
    /\ call.ret_str = first.call.ret_str

\* C9: no method changes the filtered ciphertext or the frequency table; a method
\* called again with the argument of the first call returns what the first call
\* returned and leaves the table it writes with the contents the first call left;
\* a call repeated at once leaves the instance as it was.
C9_Idempotent ==
    [][/\ attrs # {} => (ciphertext' = ciphertext /\ expected_freqs' = expected_freqs)
       /\ again' =>
            /\ SameResult'
            /\ call'.op \in {"estimate_key_length", "analyse"} =>
                  /\ key_length_scores' = first'.key_length_scores
                  /\ ("key_length_scores" \in attrs') = ("key_length_scores" \in first'.attrs)
            /\ call'.op = "recover_key" =>
                  attrs' = attrs /\ key_length_scores' = key_length_scores
       /\ (call'.op = call.op /\ call'.int_arg = call.int_arg /\ call.op # "__init__") =>
            /\ call' = call
            /\ attrs' = attrs
            /\ key_length_scores' = key_length_scores]_vars

\* recover_key(2) was the first call, when the instance had no score table; a
\* table has been stored since, and recover_key(2) has run again
C9_Witness ==
    /\ again
    /\ call.op = "recover_key"
    /\ call.int_arg = 2
    /\ "key_length_scores" \in attrs
    /\ "key_length_scores" \notin first.attrs
    /\ Len(ciphertext) = 3

====
